---- MODULE Spec2Model ----
(***************************************************************************)
(* A model of the DT1 tile-set decoder of gravestench/dt1: the byte-stream *)
(* decode pipeline (FromBytes of package pkg, New of package v2) and the   *)
(* pixel reconstruction that follows it.                                   *)
(***************************************************************************)
EXTENDS Integers, Sequences, FiniteSets, TLC

(***************************************************************************)
(* Bounds of the model.                                                    *)
(***************************************************************************)
MaxTiles == 2

MaxBlocks == 2

(***************************************************************************)
(* Program constants.                                                      *)
(***************************************************************************)
expectedV1 == 7

expectedV2 == 6

unknownDataBytes == 260

numTileBytes == 4

dataAddressBytes == 4

BlockFormatRLE == 0

BlockFormatIsometric == 1

numColors == 256

BlockEncodingRLE == 0

BlockEncodingIsometric == 1

MaxInt32 == 2147483647

(***************************************************************************)
(* Little-endian integers, as the stream's AsInt32 / AsInt16 / AsUInt16 /  *)
(* AsByte conversions read them.                                           *)
(***************************************************************************)
RECURSIVE LEValue(_)
LEValue(bytes) ==
    IF bytes = <<>> THEN 0 ELSE Head(bytes) + 256 * LEValue(Tail(bytes))

\* The two's complement value of little-endian bytes: the last byte holds
\* the sign.
RECURSIVE LESigned(_)
LESigned(bytes) ==
    IF Len(bytes) = 1
    THEN (IF Head(bytes) >= 128 THEN Head(bytes) - 256 ELSE Head(bytes))
    ELSE Head(bytes) + 256 * LESigned(Tail(bytes))

\* The n bytes of the two's complement little-endian encoding of v.
RECURSIVE LEBytes(_, _)
LEBytes(v, n) ==
    IF n = 0 THEN <<>> ELSE <<v % 256>> \o LEBytes(v \div 256, n - 1)

Zeros(n) == [i \in 1..n |-> 0]

(***************************************************************************)
(* The byte-stream cursor (github.com/gravestench/bitstream): Next(n).     *)
(* Bytes() reads n bytes at the cursor and fails when they run past the    *)
(* end of the buffer; a failed read yields the zero value and an error.    *)
(***************************************************************************)
StreamNext(data, p, n) ==
    LET ok == p >= 0 /\ n >= 0 /\ p + n <= Len(data)
    IN  [ok    |-> ok,
         bytes |-> IF ok THEN SubSeq(data, p + 1, p + n) ELSE <<>>,
         pos   |-> IF ok THEN p + n
                   ELSE IF p >= 0 /\ p < Len(data) THEN Len(data) ELSE p]

AsInt32(r) == IF r.ok THEN LESigned(r.bytes) ELSE 0

AsInt16(r) == IF r.ok THEN LESigned(r.bytes) ELSE 0

AsUInt16(r) == IF r.ok THEN LEValue(r.bytes) ELSE 0

AsByte(r) == IF r.ok THEN LEValue(r.bytes) ELSE 0

\* Consecutive Next(n).Bytes() calls, one per entry of sizes, from cursor p.
RECURSIVE ReadFields(_, _, _)
ReadFields(data, p, sizes) ==
    IF sizes = <<>> THEN <<>>
    ELSE LET r == StreamNext(data, p, Head(sizes))
         IN  <<r>> \o ReadFields(data, r.pos, Tail(sizes))

\* Among the reads f, the place of the first that failed, or 0.
FirstFailedRead(f) ==
    IF \E i \in 1..Len(f) : ~f[i].ok
    THEN CHOOSE i \in 1..Len(f) : ~f[i].ok /\ \A j \in 1..(i - 1) : f[j].ok
    ELSE 0

(***************************************************************************)
(* Input files.  A fixture is a well-formed DT1 file laid out as            *)
(* header | tile headers | per tile: block headers, block bodies.          *)
(***************************************************************************)
RECURSIVE Flatten(_)
Flatten(ss) == IF ss = <<>> THEN <<>> ELSE Head(ss) \o Flatten(Tail(ss))

RECURSIVE SumSeq(_)
SumSeq(s) == IF s = <<>> THEN 0 ELSE Head(s) + SumSeq(Tail(s))

Fill(n) == [i \in 1..n |-> 238]

\* The blocks the fixtures are made of: an RLE run above the tile origin,
\* an isometric-tagged block, and a block with an unknown tag holding a
\* single end-of-row pair.
BlockKinds ==
    << [X |-> 0, Y |-> -2, GridX |-> 1, GridY |-> 2, tag |-> 0,
        data |-> <<1, 2, 5, 6>>],
       [X |-> 0, Y |-> 0, GridX |-> 0, GridY |-> 0, tag |-> 1,
        data |-> <<9, 9, 9, 9>>],
       [X |-> 1, Y |-> 1, GridX |-> 4, GridY |-> 3, tag |-> 2,
        data |-> <<0, 0>>] >>

FixtureBlocks(seed, t, nb) ==
    [b \in 1..nb |-> BlockKinds[((seed + t + b) % Len(BlockKinds)) + 1]]

HeaderBytes(ver1, ver2, numTiles, start) ==
    LEBytes(ver1, 4) \o LEBytes(ver2, 4) \o Fill(unknownDataBytes)
        \o LEBytes(numTiles, numTileBytes) \o LEBytes(start, dataAddressBytes)

TileHeaderBytes(t, ptr, size, nb) ==
    LEBytes(t, 4) \o LEBytes(-1, 2) \o LEBytes(513, 2)
        \o LEBytes(-3, 4) \o LEBytes(4, 4) \o Fill(4)
        \o LEBytes(10 + t, 4) \o LEBytes(20 + t, 4) \o LEBytes(30 + t, 4)
        \o LEBytes(40 + t, 4) \o Fill(4)
        \o [i \in 1..25 |-> i] \o Fill(7)
        \o LEBytes(ptr, 4) \o LEBytes(size, 4) \o LEBytes(nb, 4) \o Fill(12)

BlockHeaderBytes(blk, off) ==
    LEBytes(blk.X, 2) \o LEBytes(blk.Y, 2) \o Fill(2)
        \o <<blk.GridX>> \o <<blk.GridY>> \o LEBytes(blk.tag, 2)
        \o LEBytes(Len(blk.data), 4) \o Fill(2) \o LEBytes(off, 4)

\* The block region of one tile: its block headers, then its bodies.
RegionBytes(blocks) ==
    LET n == Len(blocks)
        off(b) == 20 * n + SumSeq([c \in 1..(b - 1) |-> Len(blocks[c].data)])
    IN  Flatten([b \in 1..n |-> BlockHeaderBytes(blocks[b], off(b))])
            \o Flatten([b \in 1..n |-> blocks[b].data])

HeaderLen == 8 + unknownDataBytes + numTileBytes + dataAddressBytes

FixtureBytes(ver1, ver2, countField, nbs, seed) ==
    LET n == Len(nbs)
        blocks(t) == FixtureBlocks(seed, t, nbs[t])
        regions == [t \in 1..n |-> RegionBytes(blocks(t))]
        ptr(t) == HeaderLen + 96 * n
                      + SumSeq([u \in 1..(t - 1) |-> Len(regions[u])])
    IN  HeaderBytes(ver1, ver2, countField, HeaderLen)
            \o Flatten([t \in 1..n |->
                   TileHeaderBytes(t, ptr(t), 20 * nbs[t], nbs[t])])
            \o Flatten(regions)

\* The block counts of the tiles of a fixture.
BlockCounts ==
    UNION {[1..n -> 0..MaxBlocks] : n \in 0..MaxTiles}

Seeds == 0..(Len(BlockKinds) - 1)

\* Truncation points: around every field whose read error is checked and
\* inside fields whose read error is discarded.
CutPoints(nbs, seed, full) ==
    LET n == Len(nbs)
        blocks(t) == FixtureBlocks(seed, t, nbs[t])
        regLen(t) == Len(RegionBytes(blocks(t)))
        ptr(t) == HeaderLen + 96 * n + SumSeq([u \in 1..(t - 1) |-> regLen(u)])
    IN  ({0, 4, 7, 8, 268, 272, 275, 276}
         \cup UNION {{HeaderLen + 96 * (t - 1) + d : d \in {2, 84, 95}}
                        : t \in 1..n}
         \cup UNION {{ptr(t) + 20 * (b - 1) + d : d \in {1, 16, 19}}
                        : t \in 1..n, b \in 1..MaxBlocks}
         \cup {full - 1, full})
        \cap 0..full

VARIABLES
    variant,        \* "pkg": FromBytes of package pkg; "v2": New of package v2
    fileData,       \* the input buffer
    input,          \* what the input is: its kind, cut and full length
    pos,            \* the stream's position
    nReads,         \* the number of stream reads made so far
    pc,             \* where the decode is
    tileIdx,        \* loop index over d.Tiles (1-based)
    blockIdx,       \* loop index over t.Blocks (1-based)
    tilesAlloc,     \* d.Tiles has been allocated
    tiles,          \* d.Tiles
    numBlocksRead,  \* per tile, the block count read from its header
    err,            \* the error returned
    result,         \* what the call returned
    lastOp,         \* the decode step made last
    failedStage,    \* the stage that returned an error, if one did
    firstFail,      \* the number of the first stream read that failed, or 0
    gpc,            \* where decodeTileGraphics is
    yOffset,        \* decodeTileGraphics' yOffset
    gTile,          \* decodeTileGraphics' tile index
    gBlock,         \* decodeTileGraphics' block index
    isoIn,          \* a call of Block.decodeIsometric: its block and arguments
    isoSt,          \* that call's decoder state
    rleIn,          \* a call of Block.decodeRunLengthEncoded: block, arguments
    rleSt,          \* that call's decoder state
    rlePrev,        \* that call's decoder state before its last iteration
    palette,        \* the container's palette field
    paletteOut,     \* what the last Palette() call returned
    earlier         \* what an earlier decode of the same buffer produced

vars == <<variant, fileData, input, pos, nReads, pc, tileIdx, blockIdx,
          tilesAlloc, tiles, numBlocksRead, err, result, lastOp, failedStage,
          firstFail, gpc, yOffset, gTile, gBlock, isoIn, isoSt,
          rleIn, rleSt, rlePrev, palette, paletteOut, earlier>>

inputVars == <<variant, fileData, input>>

isoVars == <<isoIn, isoSt>>

decodeVars == <<pos, nReads, pc, tileIdx, blockIdx, tilesAlloc, tiles,
                numBlocksRead, err, result, lastOp, failedStage, firstFail>>

rleVars == <<rleIn, rleSt, rlePrev>>

paletteVars == <<palette, paletteOut>>

\* What the steps of a decode and of decodeTileGraphics leave alone.
sideVars == <<rleIn, rleSt, rlePrev, palette, paletteOut, earlier>>

gfxVars == <<gpc, yOffset, gTile, gBlock, isoIn, isoSt>>

NilTile == [set |-> FALSE]

NilBlock == [set |-> FALSE]

(***************************************************************************)
(* The decode stages, as functions of the buffer and the stream position.  *)
(***************************************************************************)
\* A faulty version test: it rejects only when both fields are wrong.
VersionAcceptedEither(ver1, ver2) == ~(ver1 # expectedV1 /\ ver2 # expectedV2)

\* decodeDT1Version's test of the two version fields.
VersionAccepted(ver1, ver2) == ~(ver1 # expectedV1 \/ ver2 # expectedV2)

\* decodeDT1Version: both reads discard their error.
decodeDT1Version(data, p) ==
    LET r1 == StreamNext(data, p, 4)
        r2 == StreamNext(data, r1.pos, 4)
    IN  [err   |-> IF VersionAccepted(AsInt32(r1), AsInt32(r2))
                   THEN "nil" ELSE "FormatMismatch",
         pos   |-> r2.pos,
         reads |-> 2]

\* decodeDT1Header / decodeHeader, up to the allocation of d.Tiles.
decodeDT1Header(data, p) ==
    LET v    == decodeDT1Version(data, p)
        skip == StreamNext(data, v.pos, unknownDataBytes)
        nt   == StreamNext(data, skip.pos, numTileBytes)
        addr == StreamNext(data, nt.pos, dataAddressBytes)
        fail(e, q, k) == [err |-> e, pos |-> q, reads |-> k,
                          alloc |-> FALSE, numberOfTiles |-> 0]
    IN  IF v.err # "nil" THEN fail(v.err, v.pos, v.reads)
        ELSE IF ~skip.ok THEN fail("TruncatedInput", skip.pos, v.reads + 1)
        ELSE IF ~nt.ok THEN fail("TruncatedInput", nt.pos, v.reads + 2)
        ELSE IF ~addr.ok THEN fail("TruncatedInput", addr.pos, v.reads + 3)
        ELSE [err |-> "nil", pos |-> AsInt32(addr), reads |-> v.reads + 3,
              alloc |-> TRUE, numberOfTiles |-> AsInt32(nt)]

TileHeaderSizes ==
    <<4, 2, 2, 4, 4, 4, 4, 4, 4, 4, 4>> \o [i \in 1..25 |-> 1]
        \o <<7, 4, 4, 4, 12>>

\* One iteration of decodeTilesStage1 / decodeTileHeaders: every read but
\* the last discards its error.
decodeTileHeader(data, p) ==
    LET f == ReadFields(data, p, TileHeaderSizes)
    IN  [ok        |-> f[41].ok,
         pos       |-> f[41].pos,
         reads     |-> Len(TileHeaderSizes),
         numBlocks |-> AsInt32(f[40]),
         tile      |-> [set                |-> TRUE,
                        Direction          |-> AsInt32(f[1]),
                        RoofHeight         |-> AsInt16(f[2]),
                        MaterialFlags      |-> AsUInt16(f[3]),
                        Height             |-> AsInt32(f[4]),
                        Width              |-> AsInt32(f[5]),
                        Type               |-> AsInt32(f[7]),
                        Style              |-> AsInt32(f[8]),
                        Sequence           |-> AsInt32(f[9]),
                        RarityFrameIndex   |-> AsInt32(f[10]),
                        SubTileFlags       |-> [i \in 1..25 |-> AsByte(f[11 + i])],
                        blockHeaderPointer |-> AsInt32(f[38]),
                        blockHeaderSize    |-> AsInt32(f[39]),
                        Blocks             |-> <<>>]]

\* A faulty allocation: an empty block sequence, left to grow later.
MakeBlocksEmpty(numBlocks) == <<>>

\* make([]*Block, numBlocks)
MakeBlocks(numBlocks) == [b \in 1..numBlocks |-> NilBlock]

BlockHeaderSizes == <<2, 2, 2, 1, 1, 2, 4, 2, 4>>

\* The format a block header's tag is stored as: package pkg maps it to
\* its two constants, v2 keeps the tag.
StoredFormat(v, formatValue) ==
    IF v = "pkg"
    THEN (IF formatValue = 1 THEN BlockFormatIsometric ELSE BlockFormatRLE)
    ELSE formatValue

\* One iteration of Tile.decodeBlockHeaders: only the last read's error is
\* looked at.
decodeBlockHeader(v, data, p) ==
    LET f == ReadFields(data, p, BlockHeaderSizes)
    IN  [ok    |-> f[9].ok,
         pos   |-> f[9].pos,
         reads |-> Len(BlockHeaderSizes),
         block |-> [set         |-> TRUE,
                    X           |-> AsInt16(f[1]),
                    Y           |-> AsInt16(f[2]),
                    GridX       |-> AsByte(f[4]),
                    GridY       |-> AsByte(f[5]),
                    formatValue |-> AsInt16(f[6]),
                    format      |-> StoredFormat(v, AsInt16(f[6])),
                    Length      |-> AsInt32(f[7]),
                    FileOffset  |-> AsInt32(f[9]),
                    EncodedData |-> <<>>,
                    encLoaded   |-> FALSE,
                    PixelData   |-> <<>>,
                    pixLoaded   |-> FALSE,
                    decodedBy   |-> "none"]]

\* A faulty seek: the block's offset is taken from the start of the file.
BodyPositionFromFileStart(tile, block) == block.FileOffset

\* Where Tile.decodeBlockBodies seeks for a block's body.
BodyPosition(tile, block) == tile.blockHeaderPointer + block.FileOffset

\* One iteration of Tile.decodeBlockBodies.
decodeBlockBody(data, tile, block) ==
    StreamNext(data, BodyPosition(tile, block), block.Length)

\* A faulty return: the container is handed back whatever the stage said.
ReturnedAnyway(e) == [result |-> "container", err |-> e]

\* What FromBytes / New hand back once a stage has ended with error e.
Returned(e) ==
    [result |-> IF e # "nil" THEN "nil" ELSE "container", err |-> e]

(***************************************************************************)
(* Pixel reconstruction.  A pixel buffer is a sequence: Go's index i is    *)
(* element i + 1.  A decoder's state is its buffer, its payload cursor,    *)
(* its remaining-length counter, its cursor (x, y) and whether it runs,    *)
(* is done or has panicked on an index out of range.                       *)
(***************************************************************************)
blockDataLength == 256

xjump == <<14, 12, 10, 8, 6, 4, 2, 0, 2, 4, 6, 8, 10, 12, 14>>

nbpix == <<4, 8, 12, 16, 20, 24, 28, 32, 28, 24, 20, 16, 12, 8, 4>>

startXPositions == <<14, 12, 10, 8, 6, 4, 2, 0, 2, 4, 6, 8, 10, 12, 14>>

pixelsPerRow == <<4, 8, 12, 16, 20, 24, 28, 32, 28, 24, 20, 16, 12, 8, 4>>

\* A faulty offset: the block's column is left out.
PixelOffsetNoBlockX(blk, x, y, w, vo) == ((blk.Y + y + vo) * w) + x

\* A faulty offset: the vertical offset is left out.
PixelOffsetUnshifted(blk, x, y, w, vo) == ((blk.Y + y) * w) + (blk.X + x)

\* The offset both packages compute for the pixel at cursor (x, y).
PixelOffset(blk, x, y, w, vo) == ((blk.Y + y + vo) * w) + (blk.X + x)

DecoderStart(blk, length) ==
    [pix |-> blk.PixelData, cursor |-> 0, remaining |-> length,
     x |-> 0, y |-> 0, status |-> IF length > 0 THEN "run" ELSE "done",
     fault |-> "none"]

\* The index that is out of range when the statement
\* PixelData[offset] = EncodedData[cursor] panics: the right-hand side is
\* evaluated first.
FaultOf(st, blk) == IF st.cursor >= Len(blk.EncodedData) THEN "read" ELSE "write"

\* Package pkg, Block.decodeIsometric: the loop over one row's pixels.
RECURSIVE pkgIsoInner(_, _, _, _, _, _, _)
pkgIsoInner(st, blk, x, n, y, w, vo) ==
    IF n <= 0 THEN [st EXCEPT !.x = x]
    ELSE LET offset == PixelOffset(blk, x, y, w, vo)
         IN  IF offset < 0 \/ offset >= Len(st.pix)
                \/ st.cursor >= Len(blk.EncodedData)
             THEN [st EXCEPT !.x = x, !.status = "panic", !.fault = FaultOf(st, blk)]
             ELSE pkgIsoInner(
                      [st EXCEPT !.pix[offset + 1] = blk.EncodedData[st.cursor + 1],
                                 !.cursor = st.cursor + 1],
                      blk, x + 1, n - 1, y, w, vo)

\* Package pkg, Block.decodeIsometric: one iteration of the loop over rows.
pkgIsoRow(st, blk, w, vo) ==
    IF st.y >= Len(xjump) \/ st.y >= Len(nbpix)
    THEN [st EXCEPT !.status = "panic", !.fault = "table"]
    ELSE LET n == nbpix[st.y + 1]
             length == st.remaining - n
             r == pkgIsoInner([st EXCEPT !.remaining = length], blk,
                              xjump[st.y + 1], n, st.y, w, vo)
         IN  IF r.status = "panic" THEN r
             ELSE [r EXCEPT !.y = st.y + 1,
                            !.status = IF length > 0 THEN "run" ELSE "done"]

\* Package v2, Block.decodeIsometric: the loop over one row's pixels stops
\* at the first offset at or past the end of the buffer.
RECURSIVE v2IsoInner(_, _, _, _, _, _, _)
v2IsoInner(st, blk, x, n, y, w, vo) ==
    IF n <= 0 THEN [st EXCEPT !.x = x]
    ELSE LET pixelDataOffset == PixelOffset(blk, x, y, w, vo)
         IN  IF pixelDataOffset >= Len(st.pix) THEN [st EXCEPT !.x = x]
             ELSE IF pixelDataOffset < 0 \/ st.cursor >= Len(blk.EncodedData)
             THEN [st EXCEPT !.x = x, !.status = "panic", !.fault = FaultOf(st, blk)]
             ELSE v2IsoInner(
                      [st EXCEPT !.pix[pixelDataOffset + 1] =
                                     blk.EncodedData[st.cursor + 1],
                                 !.cursor = st.cursor + 1],
                      blk, x + 1, n - 1, y, w, vo)

\* Package v2, Block.decodeIsometric: one iteration of the loop over rows.
v2IsoRow(st, blk, w, vo) ==
    IF st.y >= Len(startXPositions) \/ st.y >= Len(pixelsPerRow)
    THEN [st EXCEPT !.status = "done"]
    ELSE LET pixelsToProcess == pixelsPerRow[st.y + 1]
         IN  IF st.cursor + pixelsToProcess > Len(blk.EncodedData)
             THEN [st EXCEPT !.status = "done"]
             ELSE LET remaining == st.remaining - pixelsToProcess
                      r == v2IsoInner([st EXCEPT !.remaining = remaining], blk,
                                      startXPositions[st.y + 1], pixelsToProcess,
                                      st.y, w, vo)
                  IN  IF r.status = "panic" THEN r
                      ELSE [r EXCEPT !.y = st.y + 1,
                                     !.status = IF remaining > 0 THEN "run"
                                                ELSE "done"]

IsoRow(v, st, blk, w, vo) ==
    IF v = "pkg" THEN pkgIsoRow(st, blk, w, vo) ELSE v2IsoRow(st, blk, w, vo)

\* Block.decodeIsometric: the rows, until the loop ends.
RECURSIVE IsoLoop(_, _, _, _, _)
IsoLoop(v, st, blk, w, vo) ==
    IF st.status # "run" THEN st ELSE IsoLoop(v, IsoRow(v, st, blk, w, vo), blk, w, vo)

decodeIsometric(v, blk, w, vo) ==
    IsoLoop(v, DecoderStart(blk, blockDataLength), blk, w, vo)

\* Package pkg, Block.decodeRunLengthEncoded: the loop over one run.
RECURSIVE pkgRleInner(_, _, _, _, _)
pkgRleInner(st, blk, b2, w, vo) ==
    IF b2 <= 0 THEN st
    ELSE LET offset == PixelOffset(blk, st.x, st.y, w, vo)
         IN  IF offset < 0 \/ offset >= Len(st.pix)
                \/ st.cursor >= Len(blk.EncodedData)
             THEN [st EXCEPT !.status = "panic", !.fault = FaultOf(st, blk)]
             ELSE pkgRleInner(
                      [st EXCEPT !.pix[offset + 1] = blk.EncodedData[st.cursor + 1],
                                 !.cursor = st.cursor + 1,
                                 !.x = st.x + 1],
                      blk, b2 - 1, w, vo)

\* Package pkg, Block.decodeRunLengthEncoded: one iteration of the loop.
pkgRleStep(st, blk, w, vo) ==
    IF st.cursor + 1 >= Len(blk.EncodedData)
    THEN [st EXCEPT !.status = "panic", !.fault = "read"]
    ELSE LET b1 == blk.EncodedData[st.cursor + 1]
             b2 == blk.EncodedData[st.cursor + 2]
             s1 == [st EXCEPT !.cursor = st.cursor + 2,
                              !.remaining = st.remaining - 2]
         IN  IF b1 = 0 /\ b2 = 0
             THEN [s1 EXCEPT !.x = 0, !.y = st.y + 1,
                             !.status = IF s1.remaining > 0 THEN "run" ELSE "done"]
             ELSE LET length == s1.remaining - b2
                      r == pkgRleInner([s1 EXCEPT !.x = st.x + b1,
                                                  !.remaining = length],
                                       blk, b2, w, vo)
                  IN  IF r.status = "panic" THEN r
                      ELSE [r EXCEPT !.status = IF length > 0 THEN "run"
                                                ELSE "done"]

\* Package v2, Block.decodeRunLengthEncoded: the loop over one run wraps
\* at the image width and stops at the end of the buffer.
RECURSIVE v2RleInner(_, _, _, _, _)
v2RleInner(st, blk, runLength, w, vo) ==
    IF runLength <= 0 THEN st
    ELSE LET s1 == IF st.x >= w THEN [st EXCEPT !.x = 0, !.y = st.y + 1] ELSE st
             pixelDataOffset == PixelOffset(blk, s1.x, s1.y, w, vo)
         IN  IF pixelDataOffset >= Len(s1.pix) THEN s1
             ELSE IF pixelDataOffset < 0 \/ s1.cursor >= Len(blk.EncodedData)
             THEN [s1 EXCEPT !.status = "panic", !.fault = FaultOf(s1, blk)]
             ELSE v2RleInner(
                      [s1 EXCEPT !.pix[pixelDataOffset + 1] =
                                     blk.EncodedData[s1.cursor + 1],
                                 !.cursor = s1.cursor + 1,
                                 !.x = s1.x + 1],
                      blk, runLength - 1, w, vo)

max(a, b) == IF a > b THEN a ELSE b

\* A faulty loop body: the run is decoded without the test that the payload
\* holds runLength more bytes.
v2RleStepNoLengthTest(st, blk, w, vo) ==
    IF st.cursor + 1 >= Len(blk.EncodedData)
    THEN [st EXCEPT !.status = "done"]
    ELSE LET runStartOffset == blk.EncodedData[st.cursor + 1]
             runLength == blk.EncodedData[st.cursor + 2]
             s1 == [st EXCEPT !.cursor = st.cursor + 2,
                              !.remaining = st.remaining - 2]
         IN  IF runStartOffset = 0 /\ runLength = 0
             THEN [s1 EXCEPT !.x = 0, !.y = st.y + 1,
                             !.status = IF s1.remaining > 0 THEN "run" ELSE "done"]
             ELSE LET remaining == max(0, s1.remaining - runLength)
                      r == v2RleInner([s1 EXCEPT !.x = st.x + runStartOffset,
                                                 !.remaining = remaining],
                                      blk, runLength, w, vo)
                  IN  IF r.status = "panic" THEN r
                      ELSE [r EXCEPT !.status =
                                IF remaining > 0 THEN "run" ELSE "done"]

\* Package v2, Block.decodeRunLengthEncoded: one iteration of the loop.
v2RleStep(st, blk, w, vo) ==
    IF st.cursor + 1 >= Len(blk.EncodedData)
    THEN [st EXCEPT !.status = "done"]
    ELSE LET runStartOffset == blk.EncodedData[st.cursor + 1]
             runLength == blk.EncodedData[st.cursor + 2]
             s1 == [st EXCEPT !.cursor = st.cursor + 2,
                              !.remaining = st.remaining - 2]
         IN  IF runStartOffset = 0 /\ runLength = 0
             THEN [s1 EXCEPT !.x = 0, !.y = st.y + 1,
                             !.status = IF s1.remaining > 0 THEN "run" ELSE "done"]
             ELSE LET s2 == [s1 EXCEPT !.x = st.x + runStartOffset]
                  IN  IF s2.cursor + runLength > Len(blk.EncodedData)
                      THEN [s2 EXCEPT !.status = "done"]
                      ELSE LET remaining == max(0, s2.remaining - runLength)
                               r == v2RleInner([s2 EXCEPT !.remaining = remaining],
                                               blk, runLength, w, vo)
                           IN  IF r.status = "panic" THEN r
                               ELSE [r EXCEPT !.status =
                                         IF remaining > 0 THEN "run" ELSE "done"]

\* A faulty loop body: the row-end marker resets the column but does not
\* advance the row.
RleStepRowNotAdvanced(v, st, blk, w, vo) ==
    LET r == IF v = "pkg" THEN pkgRleStep(st, blk, w, vo) ELSE v2RleStep(st, blk, w, vo)
    IN  IF /\ st.cursor + 1 < Len(blk.EncodedData)
           /\ blk.EncodedData[st.cursor + 1] = 0
           /\ blk.EncodedData[st.cursor + 2] = 0
        THEN [r EXCEPT !.y = st.y]
        ELSE r

RleStep(v, st, blk, w, vo) ==
    IF v = "pkg" THEN pkgRleStep(st, blk, w, vo) ELSE v2RleStep(st, blk, w, vo)

\* Block.decodeRunLengthEncoded: the runs, until the loop ends.
RECURSIVE RleLoop(_, _, _, _, _)
RleLoop(v, st, blk, w, vo) ==
    IF st.status # "run" THEN st ELSE RleLoop(v, RleStep(v, st, blk, w, vo), blk, w, vo)

decodeRunLengthEncoded(v, blk, w, vo) ==
    RleLoop(v, DecoderStart(blk, blk.Length), blk, w, vo)

(***************************************************************************)
(* The vertical offset.                                                    *)
(***************************************************************************)
\* The inner loop of determineYOffset: the least Y of blocks and acc.
RECURSIVE MinBlockY(_, _)
MinBlockY(blocks, acc) ==
    IF blocks = <<>> THEN acc
    ELSE MinBlockY(Tail(blocks), IF Head(blocks).Y < acc THEN Head(blocks).Y ELSE acc)

\* Package pkg, DT1.determineYOffset: the sign is flipped after each tile.
RECURSIVE pkgDetermineYOffset(_, _)
pkgDetermineYOffset(ts, acc) ==
    IF ts = <<>> THEN acc
    ELSE LET m == MinBlockY(Head(ts).Blocks, acc)
         IN  pkgDetermineYOffset(Tail(ts), IF m < 0 THEN -m ELSE m)

\* Package v2, DT1.determineYOffset: the smallest Y, from MaxInt32 down.
RECURSIVE v2DetermineYOffset(_, _)
v2DetermineYOffset(ts, acc) ==
    IF ts = <<>> THEN acc
    ELSE v2DetermineYOffset(Tail(ts), MinBlockY(Head(ts).Blocks, acc))

determineYOffset(v, ts) ==
    IF v = "pkg" THEN pkgDetermineYOffset(ts, 0)
    ELSE v2DetermineYOffset(ts, MaxInt32)

MinInt32(a, b) == IF a < b THEN a ELSE b

AbsInt32(a) == IF a < 0 THEN -a ELSE a

\* Package pkg, Tile.makePixelBuffer: the offset of one tile.
RECURSIVE tileYMinimum(_, _)
tileYMinimum(blocks, acc) ==
    IF blocks = <<>> THEN acc
    ELSE tileYMinimum(Tail(blocks), MinInt32(acc, Head(blocks).Y))

tileYOffset(blocks) == AbsInt32(tileYMinimum(blocks, 0))

(***************************************************************************)
(* The initial states: a decode call on one of the input files.            *)
(***************************************************************************)
Versions == {<<7, 6>>, <<7, 5>>, <<6, 6>>, <<6, 7>>, <<-1, 6>>}

InputKind(ver, count, n, k, full) ==
    IF ver # <<expectedV1, expectedV2>> THEN "badVersion"
    ELSE IF count # n THEN "badCount"
    ELSE IF k < full THEN "truncated"
    ELSE "valid"

DecodeInit ==
    /\ variant \in {"pkg", "v2"}
    /\ \E nbs \in BlockCounts, seed \in Seeds, ver \in Versions,
          count \in -1..MaxTiles :
          /\ count \in {-1, Len(nbs)}
          /\ (ver # <<expectedV1, expectedV2>> \/ count # Len(nbs)) => seed = 0
          /\ ver # <<expectedV1, expectedV2>> => count = Len(nbs)
          /\ LET file == FixtureBytes(ver[1], ver[2], count, nbs, seed)
                 full == Len(file)
                 cuts == IF ver = <<expectedV1, expectedV2>> /\ count = Len(nbs)
                            /\ seed = 0
                         THEN CutPoints(nbs, seed, full)
                         ELSE {full}
             IN  /\ fileData \in {SubSeq(file, 1, k) : k \in cuts}
                 /\ input = [kind |-> InputKind(ver, count, Len(nbs),
                                                Len(fileData), full),
                             cut  |-> Len(fileData),
                             full |-> full,
                             ver  |-> ver]
    /\ pos = 0
    /\ nReads = 0
    /\ pc = "start"
    /\ tileIdx = 0
    /\ blockIdx = 0
    /\ tilesAlloc = FALSE
    /\ tiles = <<>>
    /\ numBlocksRead = <<>>
    /\ err = "nil"
    /\ result = "pending"
    /\ lastOp = "none"
    /\ failedStage = "none"
    /\ firstFail = 0

GfxInit ==
    /\ gpc = "idle"
    /\ yOffset = 0
    /\ gTile = 0
    /\ gBlock = 0

NoIso ==
    /\ isoIn = [variant |-> "none"]
    /\ isoSt = [status |-> "none"]

NoRle ==
    /\ rleIn = [variant |-> "none"]
    /\ rleSt = [status |-> "none"]
    /\ rlePrev = [status |-> "none"]

\* A palette value: nil, or a sequence of colours.
NilPalette == [nil |-> TRUE, entries |-> <<>>]

MakePalette(entries) == [nil |-> FALSE, entries |-> entries]

\* What the last Palette() call returned, with the palette that had been
\* supplied when it was made: nothing yet, or a palette value.
NotCalled == [called |-> FALSE, value |-> NilPalette, supplied |-> NilPalette]

PaletteResult(p, supplied) == [called |-> TRUE, value |-> p, supplied |-> supplied]

\* No earlier decode of the buffer has been made.
NoEarlier == [called |-> FALSE]

\* No palette has been supplied and Palette() has not been called.
NoPalette ==
    /\ palette = [variant |-> "none"]
    /\ paletteOut = NotCalled

Init == DecodeInit /\ GfxInit /\ NoIso /\ NoRle /\ NoPalette /\ earlier = NoEarlier

(***************************************************************************)
(* The decode, one stage step at a time.                                   *)
(***************************************************************************)
\* firstFail after the reads f have been made.
NoteFailure(f) ==
    IF firstFail # 0 THEN firstFail
    ELSE IF FirstFailedRead(f) = 0 THEN 0
    ELSE nReads + FirstFailedRead(f)

HeaderSizes == <<4, 4, unknownDataBytes, numTileBytes, dataAddressBytes>>

\* The call returns: the stage that just ran ended with error e.
Return(stage, e) ==
    /\ pc' = "returned"
    /\ result' = Returned(e).result
    /\ err' = Returned(e).err
    /\ failedStage' = IF e # "nil" THEN stage ELSE failedStage

\* A run-time panic: nothing is returned.
Panic ==
    /\ pc' = "panic"
    /\ UNCHANGED <<result, err, failedStage>>

\* decodeDT1Header (pkg) / decodeHeader (v2).
DecodeHeader ==
    /\ pc = "start"
    /\ LET h == decodeDT1Header(fileData, pos)
       IN  /\ pos' = h.pos
           /\ nReads' = nReads + h.reads
           /\ firstFail' = NoteFailure(SubSeq(ReadFields(fileData, pos, HeaderSizes),
                                              1, h.reads))
           /\ lastOp' = "header"
           /\ IF h.err # "nil"
              THEN /\ Return("header", h.err)
                   /\ UNCHANGED <<tilesAlloc, tiles, numBlocksRead, tileIdx>>
              ELSE IF h.numberOfTiles < 0
              THEN /\ Panic
                   /\ UNCHANGED <<tilesAlloc, tiles, numBlocksRead, tileIdx>>
              ELSE /\ tilesAlloc' = TRUE
                   /\ tiles' = [t \in 1..h.numberOfTiles |-> NilTile]
                   /\ numBlocksRead' = [t \in 1..h.numberOfTiles |-> 0]
                   /\ tileIdx' = 1
                   /\ pc' = "stage1"
                   /\ UNCHANGED <<result, err, failedStage>>
    /\ UNCHANGED <<blockIdx, variant, fileData, input>>
    /\ UNCHANGED gfxVars
    /\ UNCHANGED sideVars

\* One iteration of the loop of decodeTilesStage1 / decodeTileHeaders.
DecodeTileHeader ==
    /\ pc = "stage1"
    /\ tileIdx <= Len(tiles)
    /\ LET h == decodeTileHeader(fileData, pos)
       IN  /\ pos' = h.pos
           /\ nReads' = nReads + h.reads
           /\ firstFail' = NoteFailure(ReadFields(fileData, pos, TileHeaderSizes))
           /\ lastOp' = "tileHeader"
           /\ IF h.numBlocks < 0
              THEN /\ Panic
                   /\ UNCHANGED <<tiles, numBlocksRead, tileIdx>>
              ELSE IF ~h.ok
              THEN /\ Return("tileHeaders", "TruncatedInput")
                   /\ UNCHANGED <<tiles, numBlocksRead, tileIdx>>
              ELSE /\ tiles' = [tiles EXCEPT ![tileIdx] =
                          [h.tile EXCEPT !.Blocks = MakeBlocks(h.numBlocks)]]
                   /\ numBlocksRead' = [numBlocksRead EXCEPT ![tileIdx] = h.numBlocks]
                   /\ tileIdx' = tileIdx + 1
                   /\ UNCHANGED <<pc, result, err, failedStage>>
    /\ UNCHANGED <<blockIdx, tilesAlloc, variant, fileData, input>>
    /\ UNCHANGED gfxVars
    /\ UNCHANGED sideVars

\* decodeTilesStage1 returns nil; decodeTilesStage2 / decodeTileBodies starts.
EndStage1 ==
    /\ pc = "stage1"
    /\ tileIdx > Len(tiles)
    /\ pc' = "stage2"
    /\ tileIdx' = 1
    /\ UNCHANGED <<pos, nReads, blockIdx, tilesAlloc, tiles, numBlocksRead,
                   err, result, lastOp, failedStage, firstFail, variant, fileData,
                   input>>
    /\ UNCHANGED gfxVars
    /\ UNCHANGED sideVars

\* The loop head of decodeTilesStage2: the next tile's decodeBlockHeaders
\* seeks to the tile's block header pointer, or the loop ends and the
\* decode returns its container.
Stage2Next ==
    /\ pc = "stage2"
    /\ IF tileIdx <= Len(tiles)
       THEN /\ pos' = tiles[tileIdx].blockHeaderPointer
            /\ blockIdx' = 1
            /\ pc' = "blockHeaders"
            /\ UNCHANGED <<result, err, failedStage>>
       ELSE /\ Return("none", "nil")
            /\ UNCHANGED <<pos, blockIdx>>
    /\ UNCHANGED <<nReads, tileIdx, tilesAlloc, tiles, numBlocksRead, lastOp, firstFail,
                   variant, fileData, input>>
    /\ UNCHANGED gfxVars
    /\ UNCHANGED sideVars

\* A faulty header pass: each block's body is loaded right after its header.
DecodeBlockHeaderThenBody ==
    /\ pc = "blockHeaders"
    /\ blockIdx <= Len(tiles[tileIdx].Blocks)
    /\ LET h == decodeBlockHeader(variant, fileData, pos)
           r == decodeBlockBody(fileData, tiles[tileIdx], h.block)
       IN  /\ pos' = h.pos
           /\ nReads' = nReads + h.reads + 1
           /\ firstFail' = NoteFailure(ReadFields(fileData, pos, BlockHeaderSizes))
           /\ lastOp' = "blockHeader"
           /\ IF ~h.ok \/ ~r.ok
              THEN /\ Return("blockHeaders", "TruncatedInput")
                   /\ UNCHANGED <<tiles, blockIdx>>
              ELSE /\ tiles' = [tiles EXCEPT ![tileIdx].Blocks[blockIdx] =
                          [h.block EXCEPT !.EncodedData = r.bytes,
                                          !.encLoaded = TRUE]]
                   /\ blockIdx' = blockIdx + 1
                   /\ UNCHANGED <<pc, result, err, failedStage>>
    /\ UNCHANGED <<tileIdx, tilesAlloc, numBlocksRead, variant, fileData, input>>
    /\ UNCHANGED gfxVars
    /\ UNCHANGED sideVars

\* One iteration of the loop of Tile.decodeBlockHeaders.  Package pkg puts
\* the block in its slot before it reads, v2 after the last read succeeded.
DecodeBlockHeader ==
    /\ pc = "blockHeaders"
    /\ blockIdx <= Len(tiles[tileIdx].Blocks)
    /\ LET h == decodeBlockHeader(variant, fileData, pos)
       IN  /\ pos' = h.pos
           /\ nReads' = nReads + h.reads
           /\ firstFail' = NoteFailure(ReadFields(fileData, pos, BlockHeaderSizes))
           /\ lastOp' = "blockHeader"
           /\ IF ~h.ok
              THEN /\ Return("blockHeaders", "TruncatedInput")
                   /\ tiles' = IF variant = "pkg"
                               THEN [tiles EXCEPT ![tileIdx].Blocks[blockIdx] = h.block]
                               ELSE tiles
                   /\ UNCHANGED blockIdx
              ELSE /\ tiles' = [tiles EXCEPT ![tileIdx].Blocks[blockIdx] = h.block]
                   /\ blockIdx' = blockIdx + 1
                   /\ UNCHANGED <<pc, result, err, failedStage>>
    /\ UNCHANGED <<tileIdx, tilesAlloc, numBlocksRead, variant, fileData, input>>
    /\ UNCHANGED gfxVars
    /\ UNCHANGED sideVars

\* Tile.decodeBlockHeaders returns nil; Tile.decodeBlockBodies starts.
EndBlockHeaders ==
    /\ pc = "blockHeaders"
    /\ blockIdx > Len(tiles[tileIdx].Blocks)
    /\ pc' = "blockBodies"
    /\ blockIdx' = 1
    /\ UNCHANGED <<pos, nReads, tileIdx, tilesAlloc, tiles, numBlocksRead,
                   err, result, lastOp, failedStage, firstFail, variant, fileData,
                   input>>
    /\ UNCHANGED gfxVars
    /\ UNCHANGED sideVars

\* One iteration of the loop of Tile.decodeBlockBodies.
DecodeBlockBody ==
    /\ pc = "blockBodies"
    /\ blockIdx <= Len(tiles[tileIdx].Blocks)
    /\ LET tile == tiles[tileIdx]
           r == decodeBlockBody(fileData, tile, tile.Blocks[blockIdx])
       IN  /\ pos' = r.pos
           /\ nReads' = nReads + 1
           /\ firstFail' = NoteFailure(<<r>>)
           /\ lastOp' = "blockBody"
           /\ IF ~r.ok
              THEN /\ Return("blockBodies", "TruncatedInput")
                   /\ UNCHANGED <<tiles, blockIdx>>
              ELSE /\ tiles' = [tiles EXCEPT ![tileIdx].Blocks[blockIdx] =
                          [@ EXCEPT !.EncodedData = r.bytes, !.encLoaded = TRUE]]
                   /\ blockIdx' = blockIdx + 1
                   /\ UNCHANGED <<pc, result, err, failedStage>>
    /\ UNCHANGED <<tileIdx, tilesAlloc, numBlocksRead, variant, fileData, input>>
    /\ UNCHANGED gfxVars
    /\ UNCHANGED sideVars

\* Tile.decodeBlockBodies returns nil; the stage 2 loop goes to the next tile.
EndBlockBodies ==
    /\ pc = "blockBodies"
    /\ blockIdx > Len(tiles[tileIdx].Blocks)
    /\ pc' = "stage2"
    /\ tileIdx' = tileIdx + 1
    /\ UNCHANGED <<pos, nReads, blockIdx, tilesAlloc, tiles, numBlocksRead,
                   err, result, lastOp, failedStage, firstFail, variant, fileData,
                   input>>
    /\ UNCHANGED gfxVars
    /\ UNCHANGED sideVars

(***************************************************************************)
(* decodeTileGraphics, run on the container a decode returned.             *)
(***************************************************************************)
\* Which decoder decodeTileGraphics runs on a block of the given format:
\* package pkg tests for the isometric format and else decodes RLE, v2
\* switches over its two constants.
GraphicsDispatch(v, format) ==
    IF v = "pkg"
    THEN (IF format = BlockFormatIsometric THEN "iso" ELSE "rle")
    ELSE (IF format = BlockEncodingIsometric THEN "iso"
          ELSE IF format = BlockEncodingRLE THEN "rle"
          ELSE "none")

\* The decoder run on one block whose PixelData has just been allocated.
DecodeBlockGraphics(v, blk, w, vo) ==
    LET d == GraphicsDispatch(v, blk.format)
    IN  IF d = "iso" THEN decodeIsometric(v, blk, w, vo)
        ELSE IF d = "rle" THEN decodeRunLengthEncoded(v, blk, w, vo)
        ELSE [DecoderStart(blk, 0) EXCEPT !.status = "done"]

\* A faulty start of decodeTileGraphics: the vertical offset is not computed.
GfxSkipYOffset ==
    /\ pc = "returned"
    /\ result = "container"
    /\ gpc = "idle"
    /\ gpc' = "blocks"
    /\ gTile' = 1
    /\ gBlock' = 1
    /\ UNCHANGED yOffset
    /\ UNCHANGED decodeVars
    /\ UNCHANGED inputVars
    /\ UNCHANGED isoVars
    /\ UNCHANGED sideVars

\* decodeTileGraphics starts: the vertical offset is computed first.
GfxDetermineYOffset ==
    /\ pc = "returned"
    /\ result = "container"
    /\ gpc = "idle"
    /\ yOffset' = determineYOffset(variant, tiles)
    /\ gpc' = "blocks"
    /\ gTile' = 1
    /\ gBlock' = 1
    /\ UNCHANGED decodeVars
    /\ UNCHANGED inputVars
    /\ UNCHANGED isoVars
    /\ UNCHANGED sideVars

\* One iteration of the loop over a tile's blocks.
GfxDecodeBlock ==
    /\ gpc = "blocks"
    /\ gTile <= Len(tiles)
    /\ gBlock <= Len(tiles[gTile].Blocks)
    /\ LET tile == tiles[gTile]
           tileWidth == tile.Width
           tileHeight == IF tile.Height < 0 THEN -tile.Height ELSE tile.Height
           size == tileWidth * tileHeight
       IN  IF size < 0
           THEN /\ gpc' = "panic"
                /\ UNCHANGED <<tiles, gBlock>>
           ELSE LET blk == [tile.Blocks[gBlock] EXCEPT !.PixelData = Zeros(size),
                                                       !.pixLoaded = TRUE]
                    r == DecodeBlockGraphics(variant, blk, tileWidth, yOffset)
                IN  /\ tiles' = [tiles EXCEPT ![gTile].Blocks[gBlock] =
                                    [blk EXCEPT !.PixelData = r.pix,
                                                !.decodedBy =
                                                    GraphicsDispatch(variant, blk.format)]]
                    /\ IF r.status = "panic"
                       THEN gpc' = "panic" /\ UNCHANGED gBlock
                       ELSE gBlock' = gBlock + 1 /\ UNCHANGED gpc
    /\ UNCHANGED <<pos, nReads, pc, tileIdx, blockIdx, tilesAlloc, numBlocksRead,
                   err, result, lastOp, failedStage, firstFail>>
    /\ UNCHANGED <<yOffset, gTile>>
    /\ UNCHANGED inputVars
    /\ UNCHANGED isoVars
    /\ UNCHANGED sideVars

\* The loop over a tile's blocks ends: the next tile.
GfxNextTile ==
    /\ gpc = "blocks"
    /\ gTile <= Len(tiles)
    /\ gBlock > Len(tiles[gTile].Blocks)
    /\ gTile' = gTile + 1
    /\ gBlock' = 1
    /\ UNCHANGED <<gpc, yOffset>>
    /\ UNCHANGED decodeVars
    /\ UNCHANGED inputVars
    /\ UNCHANGED isoVars
    /\ UNCHANGED sideVars

\* The loop over the tiles ends: decodeTileGraphics returns.
GfxDone ==
    /\ gpc = "blocks"
    /\ gTile > Len(tiles)
    /\ gpc' = "done"
    /\ UNCHANGED <<yOffset, gTile, gBlock>>
    /\ UNCHANGED decodeVars
    /\ UNCHANGED inputVars
    /\ UNCHANGED isoVars
    /\ UNCHANGED sideVars

DecodeNext ==
    \/ DecodeHeader
    \/ DecodeTileHeader
    \/ EndStage1
    \/ Stage2Next
    \/ DecodeBlockHeader
    \/ EndBlockHeaders
    \/ DecodeBlockBody
    \/ EndBlockBodies

GfxNext ==
    \/ GfxDetermineYOffset
    \/ GfxDecodeBlock
    \/ GfxNextTile
    \/ GfxDone

Next == DecodeNext \/ GfxNext

Spec == Init /\ [][Next]_vars

(***************************************************************************)
(* A second decode of the same buffer, after the first has returned.       *)
(***************************************************************************)
\* What a second FromBytes / New starts from, given the stream position p
\* it reads from: a new container, nothing read, no graphics pass.
StartOfCall(p) ==
    /\ pos' = p
    /\ nReads' = 0
    /\ pc' = "start"
    /\ tileIdx' = 0
    /\ blockIdx' = 0
    /\ tilesAlloc' = FALSE
    /\ tiles' = <<>>
    /\ numBlocksRead' = <<>>
    /\ err' = "nil"
    /\ result' = "pending"
    /\ lastOp' = "none"
    /\ failedStage' = "none"
    /\ firstFail' = 0
    /\ gpc' = "idle"
    /\ yOffset' = 0
    /\ gTile' = 0
    /\ gBlock' = 0

\* What the caller holds of a call that has returned.
HeldResult ==
    [called |-> TRUE, result |-> result, err |-> err, tiles |-> tiles,
     gpc |-> gpc, yOffset |-> yOffset]

\* A faulty second call: it reads on from the stream of the first call.
DecodeAgainSameStream ==
    /\ pc = "returned"
    /\ gpc \in {"idle", "done"}
    /\ ~earlier.called
    /\ earlier' = HeldResult
    /\ StartOfCall(pos)
    /\ UNCHANGED inputVars
    /\ UNCHANGED isoVars
    /\ UNCHANGED rleVars
    /\ UNCHANGED paletteVars

\* FromBytes / New is called again on the same buffer: result = &DT1{} and
\* a new stream over the buffer.  The caller keeps the first call's result.
DecodeAgain ==
    /\ pc = "returned"
    /\ gpc \in {"idle", "done"}
    /\ ~earlier.called
    /\ earlier' = HeldResult
    /\ StartOfCall(0)
    /\ UNCHANGED inputVars
    /\ UNCHANGED isoVars
    /\ UNCHANGED rleVars
    /\ UNCHANGED paletteVars

TwiceNext == Next \/ DecodeAgain

SpecTwice == Init /\ [][TwiceNext]_vars

(***************************************************************************)
(* Block.decodeIsometric on its own: a block at a chosen place of a tile   *)
(* of a chosen size, decoded one row at a time.                            *)
(***************************************************************************)
IsoPayloads ==
    { [i \in 1..blockDataLength |-> 1],
      [i \in 1..blockDataLength |-> 255],
      [i \in 1..blockDataLength |-> (i % 255) + 1],
      [i \in 1..(blockDataLength - 1) |-> 7] }

IsoTileSizes == {<<32, 15>>, <<34, 17>>, <<32, 8>>, <<16, 40>>}

IsoBlockXs == {0, 2, -1}

IsoBlockYs == {0, -2}

IsoOffsets == {0, 2}

\* No decode call is in progress.
NoDecode ==
    /\ variant = "none"
    /\ fileData = <<>>
    /\ input = [kind |-> "none"]
    /\ pos = 0
    /\ nReads = 0
    /\ pc = "none"
    /\ tileIdx = 0
    /\ blockIdx = 0
    /\ tilesAlloc = FALSE
    /\ tiles = <<>>
    /\ numBlocksRead = <<>>
    /\ err = "nil"
    /\ result = "pending"
    /\ lastOp = "none"
    /\ failedStage = "none"
    /\ firstFail = 0

IsoInit ==
    /\ NoDecode
    /\ GfxInit
    /\ NoRle
    /\ NoPalette
    /\ earlier = NoEarlier
    /\ \E v \in {"pkg", "v2"}, size \in IsoTileSizes, bx \in IsoBlockXs,
          by \in IsoBlockYs, vo \in IsoOffsets, enc \in IsoPayloads :
          LET blk == [X |-> bx, Y |-> by, EncodedData |-> enc,
                      Length |-> Len(enc),
                      PixelData |-> Zeros(size[1] * size[2])]
          IN  /\ isoIn = [variant |-> v, blk |-> blk, w |-> size[1], vo |-> vo]
              /\ isoSt = DecoderStart(blk, blockDataLength)

\* One iteration of decodeIsometric's loop over the rows.
IsoDecodeRow ==
    /\ isoSt.status = "run"
    /\ isoSt' = IsoRow(isoIn.variant, isoSt, isoIn.blk, isoIn.w, isoIn.vo)
    /\ UNCHANGED isoIn
    /\ UNCHANGED sideVars
    /\ UNCHANGED decodeVars
    /\ UNCHANGED inputVars
    /\ UNCHANGED <<gpc, yOffset, gTile, gBlock>>

IsoNext == IsoDecodeRow

SpecIso == IsoInit /\ [][IsoNext]_vars

(***************************************************************************)
(* Block.decodeRunLengthEncoded on its own: a block at a chosen place of   *)
(* a tile of a chosen size, decoded one loop iteration at a time.          *)
(***************************************************************************)
RlePayloads ==
    { <<>>, <<0, 0>>, <<0, 0, 0, 0>>, <<0, 0, 0, 0, 0, 0>>,
      <<3, 2, 170, 187>>,
      <<1, 2, 5, 6, 0, 0, 2, 1, 7>>,
      <<2, 0, 1, 1, 9>>,
      <<0, 0, 1>>,
      <<1, 5, 9, 9>>,
      <<0, 3, 1, 2, 3, 0, 0, 1, 1, 4>>,
      <<5, 1, 7>>,
      <<0, 1, 8, 0, 0, 0, 1, 8>> }

RleTileSizes == {<<8, 3>>, <<4, 2>>, <<2, 2>>}

RleBlockXs == {0, 1, -2}

RleBlockYs == {0, -1}

RleOffsets == {0, 1}

RleInit ==
    /\ NoDecode
    /\ GfxInit
    /\ NoIso
    /\ NoPalette
    /\ earlier = NoEarlier
    /\ \E v \in {"pkg", "v2"}, size \in RleTileSizes, bx \in RleBlockXs,
          by \in RleBlockYs, vo \in RleOffsets, enc \in RlePayloads :
          LET blk == [X |-> bx, Y |-> by, EncodedData |-> enc,
                      Length |-> Len(enc),
                      PixelData |-> Zeros(size[1] * size[2])]
          IN  /\ rleIn = [variant |-> v, blk |-> blk, w |-> size[1], vo |-> vo]
              /\ rleSt = DecoderStart(blk, blk.Length)
              /\ rlePrev = [status |-> "none"]

\* One iteration of decodeRunLengthEncoded's loop.
RleDecodeStep ==
    /\ rleSt.status = "run"
    /\ rlePrev' = rleSt
    /\ rleSt' = RleStep(rleIn.variant, rleSt, rleIn.blk, rleIn.w, rleIn.vo)
    /\ UNCHANGED rleIn
    /\ UNCHANGED paletteVars
    /\ UNCHANGED earlier
    /\ UNCHANGED decodeVars
    /\ UNCHANGED inputVars
    /\ UNCHANGED gfxVars

\* The two pixel decoders, each on its own.
PixelsInit == IsoInit \/ RleInit

PixelsNext == IsoDecodeRow \/ RleDecodeStep

SpecPixels == PixelsInit /\ [][PixelsNext]_vars

(***************************************************************************)
(* The container's palette.                                                *)
(***************************************************************************)
\* defaultPalette(): numColors entries, entry idx grey of level idx, opaque.
defaultPalette ==
    MakePalette([i \in 1..numColors |->
                    [R |-> i - 1, G |-> i - 1, B |-> i - 1, A |-> 255]])

Colour(r, g, b, a) == [R |-> r, G |-> g, B |-> b, A |-> a]

\* The palettes a caller supplies.
SuppliedPalettes ==
    { MakePalette(<<>>),
      MakePalette(<<Colour(255, 0, 0, 255)>>),
      MakePalette(<<Colour(255, 0, 0, 255), Colour(0, 0, 255, 128)>>),
      MakePalette([i \in 1..numColors |-> Colour(0, 255, 0, 255)]),
      MakePalette([i \in 1..numColors |-> Colour(255 - (i - 1), i - 1, 0, 255)]),
      defaultPalette }

\* The containers Palette and SetPalette are called on: the number of blocks
\* of each tile.
PaletteShapes == { <<>>, <<1>>, <<2, 0>> }

\* DT1.Palette: package pkg fills in the default palette when the field is
\* nil, v2 hands the field back as it is.
PaletteField(v, field) ==
    IF v = "pkg" /\ field.nil THEN defaultPalette ELSE field

\* v2 DT1.SetPalette: the palette is stored in the container, in every tile
\* and in every block.
SetPalette(d, p) ==
    [d EXCEPT !.field = p,
              !.supplied = p,
              !.tiles = [t \in 1..Len(d.tiles) |->
                            [palette |-> p,
                             blocks  |-> [b \in 1..Len(d.tiles[t].blocks) |-> p]]]]

PaletteInit ==
    /\ NoDecode
    /\ GfxInit
    /\ NoIso
    /\ NoRle
    /\ earlier = NoEarlier
    /\ paletteOut = NotCalled
    /\ \E v \in {"pkg", "v2"}, shape \in PaletteShapes :
          palette = [variant  |-> v,
                     field    |-> NilPalette,
                     supplied |-> NilPalette,
                     tiles    |-> [t \in 1..Len(shape) |->
                                      [palette |-> NilPalette,
                                       blocks  |-> [b \in 1..shape[t] |-> NilPalette]]]]

\* A call of d.Palette().
CallPalette ==
    /\ palette.variant # "none"
    /\ palette' = [palette EXCEPT !.field = PaletteField(palette.variant, palette.field)]
    /\ paletteOut' = PaletteResult(PaletteField(palette.variant, palette.field),
                                   palette.supplied)
    /\ UNCHANGED <<earlier, rleVars>>
    /\ UNCHANGED decodeVars
    /\ UNCHANGED inputVars
    /\ UNCHANGED gfxVars

\* A call of d.SetPalette(p); package pkg has no such method.
CallSetPalette ==
    /\ palette.variant = "v2"
    /\ \E p \in SuppliedPalettes : palette' = SetPalette(palette, p)
    /\ UNCHANGED paletteOut
    /\ UNCHANGED <<earlier, rleVars>>
    /\ UNCHANGED decodeVars
    /\ UNCHANGED inputVars
    /\ UNCHANGED gfxVars

PaletteNext == CallPalette \/ CallSetPalette

SpecPalette == PaletteInit /\ [][PaletteNext]_vars

(***************************************************************************)
(* Properties of the decode.                                               *)
(***************************************************************************)
TileIds == 1..Len(tiles)

BlockIds(t) == IF tiles[t].set THEN 1..Len(tiles[t].Blocks) ELSE {}

HeaderLoaded(t, b) == tiles[t].Blocks[b].set

BodyLoaded(t, b) == tiles[t].Blocks[b].set /\ tiles[t].Blocks[b].encLoaded

PixelsLoaded(t, b) == tiles[t].Blocks[b].set /\ tiles[t].Blocks[b].pixLoaded

\* Every tile has its header, every block its header and its whole body.
FullyLoaded ==
    \A t \in TileIds :
        /\ tiles[t].set
        /\ \A b \in BlockIds(t) :
               /\ BodyLoaded(t, b)
               /\ Len(tiles[t].Blocks[b].EncodedData) = tiles[t].Blocks[b].Length

\* C1: a decode that returns hands back either a container and no error, or
\* no container and an error; the container is handed back only when no
\* stage failed, and then every tile and block of it is loaded, so that a
\* partially decoded container is never returned.
C1_AllOrNothing ==
    /\ result = "container" => pc = "returned"
    /\ pc = "returned" =>
           /\ \/ result = "container" /\ err = "nil"
              \/ result = "nil" /\ err # "nil"
           /\ result = "container" => (failedStage = "none" /\ FullyLoaded)
           /\ result = "nil" => failedStage # "none"

\* A decode that failed in the last stage, after it had loaded a block body:
\* the partly filled container is not returned.
C1_Witness ==
    /\ pc = "returned"
    /\ result = "nil"
    /\ failedStage = "blockBodies"
    /\ \E t \in TileIds : \E b \in BlockIds(t) : BodyLoaded(t, b)

\* The two leading 32-bit fields of the buffer.
LeadingVersion ==
    <<LESigned(SubSeq(fileData, 1, 4)), LESigned(SubSeq(fileData, 5, 8))>>

\* C2: on a buffer whose two leading 32-bit fields are not the pair (7, 6)
\* the decode returns the format-mismatch error and no container, having
\* allocated no tile sequence and read no field after the two version
\* fields.
C2_VersionMismatchRejected ==
    (Len(fileData) >= 8 /\ LeadingVersion # <<7, 6>> /\ pc # "start") =>
        /\ pc = "returned"
        /\ result = "nil"
        /\ err = "FormatMismatch"
        /\ ~tilesAlloc
        /\ tiles = <<>>
        /\ nReads = 2
        /\ pos = 8

\* A buffer whose first version field is right and whose second is wrong
\* has been rejected.
C2_Witness ==
    /\ Len(fileData) >= 8
    /\ LeadingVersion = <<7, 5>>
    /\ pc = "returned"
    /\ err = "FormatMismatch"

\* C3: the decode of a valid file cut short at any length below its own
\* returns the truncated-input error and no container, and never panics.
C3_TruncationIsTruncatedInput ==
    input.kind = "truncated" =>
        /\ pc # "panic"
        /\ pc = "returned" => (result = "nil" /\ err = "TruncatedInput")

\* What the decode of a file cut short does: no panic and no container, the
\* format-mismatch error when fewer than 8 bytes are left and the
\* truncated-input error otherwise.
TruncationOutcome ==
    input.kind = "truncated" =>
        /\ pc # "panic"
        /\ pc = "returned" =>
               /\ result = "nil"
               /\ err = IF input.cut < 8 THEN "FormatMismatch"
                        ELSE "TruncatedInput"

\* C4: when the decode has returned a container, every block of every tile
\* has its pixel data, of length tile width times the absolute tile height.
C4_PixelDataOnReturn ==
    (pc = "returned" /\ result = "container") =>
        \A t \in TileIds : \A b \in BlockIds(t) :
            /\ PixelsLoaded(t, b)
            /\ Len(tiles[t].Blocks[b].PixelData) =
                   tiles[t].Width * (IF tiles[t].Height < 0 THEN -tiles[t].Height
                                     ELSE tiles[t].Height)

\* Every block header of every tile has been read.
AllBlockHeadersRead ==
    \A t \in TileIds : tiles[t].set /\ \A b \in BlockIds(t) : HeaderLoaded(t, b)

\* Every block body of tile t has been read.
AllBodiesRead(t) == tiles[t].set /\ \A b \in BlockIds(t) : BodyLoaded(t, b)

\* C5 as stated: the decode is two-pass over the whole container, so that
\* once the body of some block has been loaded every block header of every
\* tile has been read and no block header is read any more.
C5_TwoPassOverContainer ==
    (\E t \in TileIds : \E b \in BlockIds(t) : BodyLoaded(t, b)) =>
        (AllBlockHeadersRead /\ pc # "blockHeaders")

\* C5, amended: every tile header is read before any block header or body;
\* the tiles are then taken in file order, and for each tile all of its
\* block headers are read before any of its bodies, and all of its bodies
\* before any block header of the next tile.
C5_TwoPassPerTile ==
    /\ lastOp \in {"blockHeader", "blockBody"} => \A t \in TileIds : tiles[t].set
    /\ pc = "blockHeaders" =>
           \A t \in TileIds : t >= tileIdx =>
               \A b \in BlockIds(t) : ~BodyLoaded(t, b)
    /\ pc = "blockBodies" => \A b \in BlockIds(tileIdx) : HeaderLoaded(tileIdx, b)
    /\ \A t \in TileIds : \A b \in BlockIds(t) :
           /\ BodyLoaded(t, b) => \A c \in BlockIds(t) : HeaderLoaded(t, c)
           /\ HeaderLoaded(t, b) => \A u \in 1..(t - 1) : AllBodiesRead(u)

\* The block headers of the second tile are being read after a body of the
\* first tile has been loaded.
C5_Witness ==
    /\ pc = "blockHeaders"
    /\ tileIdx = 2
    /\ lastOp = "blockHeader"
    /\ \E b \in BlockIds(1) : BodyLoaded(1, b)

\* C6: a block has pixel data only if its header and its body have been
\* loaded, and only once the vertical offset has been computed over the
\* headers of all blocks of all tiles.
C6_PixelsAfterLoadAndOffset ==
    \A t \in TileIds : \A b \in BlockIds(t) :
        PixelsLoaded(t, b) =>
            /\ HeaderLoaded(t, b)
            /\ BodyLoaded(t, b)
            /\ gpc # "idle"
            /\ AllBlockHeadersRead
            /\ yOffset = determineYOffset(variant, tiles)

\* A block has been given its pixels under an offset other than zero.
C6_Witness ==
    /\ yOffset # 0
    /\ \E t \in TileIds : \E b \in BlockIds(t) : PixelsLoaded(t, b)

\* The block count field of the header of tile t, as it stands in the file.
BlockCountField(t) ==
    LET base == HeaderLen + 96 * (t - 1)
    IN  LESigned(SubSeq(fileData, base + 81, base + 84))

\* C7: once a tile's header has been decoded its block sequence has the
\* length the header's block count gives, and keeps it through the block
\* header pass and the body pass.
C7_BlockCountKept ==
    \A t \in TileIds :
        tiles[t].set =>
            /\ Len(tiles[t].Blocks) = numBlocksRead[t]
            /\ numBlocksRead[t] = BlockCountField(t)

\* Both passes have run over a tile of two blocks.
C7_Witness ==
    /\ pc = "returned"
    /\ result = "container"
    /\ \E t \in TileIds : Len(tiles[t].Blocks) = 2 /\ AllBodiesRead(t)

\* The least element of a set of integers.
Least(S) == CHOOSE m \in S : \A x \in S : m <= x

BlockYsOf(t) == {tiles[t].Blocks[b].Y : b \in BlockIds(t)}

\* C8: the vertical offset is the absolute value of the least block y of
\* its scope: of all blocks of all tiles for determineYOffset, of the
\* tile's blocks for Tile.makePixelBuffer.
C8_OffsetIsAbsOfLeastY ==
    (pc = "returned" /\ result = "container") =>
        /\ LET ys == UNION {BlockYsOf(t) : t \in TileIds}
           IN  (gpc # "idle" /\ ys # {}) =>
                   yOffset = (IF Least(ys) < 0 THEN -Least(ys) ELSE Least(ys))
        /\ \A t \in TileIds :
               BlockYsOf(t) # {} =>
                   tileYOffset(tiles[t].Blocks) =
                       (IF Least(BlockYsOf(t)) < 0 THEN -Least(BlockYsOf(t))
                        ELSE Least(BlockYsOf(t)))

(***************************************************************************)
(* Properties of the isometric decode.                                     *)
(***************************************************************************)
\* C9: the isometric decode of a block with a 256-byte payload never
\* panics, indexes its two tables at rows 0..14 only, and ends after
\* exactly 15 rows with exactly 256 payload bytes consumed, wherever the
\* block lies and whatever the tile's size.
C9_FifteenRows256Bytes ==
    (isoIn.variant # "none" /\ Len(isoIn.blk.EncodedData) = 256) =>
        /\ isoSt.status # "panic"
        /\ isoSt.status = "run" => isoSt.y < 15
        /\ isoSt.status = "done" => (isoSt.y = 15 /\ isoSt.cursor = 256)

\* The diamond: the first column and the number of pixels of each row.
rowStartX == <<14, 12, 10, 8, 6, 4, 2, 0, 2, 4, 6, 8, 10, 12, 14>>

rowPixelCount == <<4, 8, 12, 16, 20, 24, 28, 32, 28, 24, 20, 16, 12, 8, 4>>

\* The payload is 256 bytes of one value, which is not zero.
UniformPayload ==
    /\ isoIn.variant # "none"
    /\ Len(isoIn.blk.EncodedData) = 256
    /\ isoIn.blk.EncodedData[1] \in 1..255
    /\ \A i \in 1..256 : isoIn.blk.EncodedData[i] = isoIn.blk.EncodedData[1]

\* The buffer index of the first pixel of the diamond's row r: column
\* blockX + rowStartX[r] of canvas row blockY + r + yOffset.
RowFirst(r) ==
    ((isoIn.blk.Y + r + isoIn.vo) * isoIn.w) + isoIn.blk.X + rowStartX[r + 1]

\* Buffer index j is one of the rowPixelCount[r] consecutive pixels of some
\* row r of the diamond.
InDiamond(j) ==
    \E r \in 0..14 : j >= RowFirst(r) /\ j < RowFirst(r) + rowPixelCount[r + 1]

\* C10: the isometric decode of a payload of 256 bytes of one value V, into
\* a buffer of zeros, leaves V in exactly the buffer's pixels of the diamond
\* and zero in every other pixel.
C10_UniformPayloadDrawsDiamond ==
    (UniformPayload /\ isoSt.status = "done") =>
        \A j \in 0..(Len(isoSt.pix) - 1) :
            isoSt.pix[j + 1] = IF InDiamond(j)
                               THEN isoIn.blk.EncodedData[1] ELSE 0

\* A decode has ended whose diamond lies inside the tile, shifted down by
\* the vertical offset: all its 256 pixels hold V.
C10_Witness ==
    /\ UniformPayload
    /\ isoSt.status = "done"
    /\ isoSt.cursor = 256
    /\ isoIn.vo > 0
    /\ isoIn.blk.X >= 0
    /\ isoIn.blk.X + 32 <= isoIn.w
    /\ \A r \in 0..14 :
           /\ RowFirst(r) >= 0
           /\ RowFirst(r) + rowPixelCount[r + 1] <= Len(isoSt.pix)
           /\ \A i \in 0..(rowPixelCount[r + 1] - 1) :
                  isoSt.pix[RowFirst(r) + i + 1] = isoIn.blk.EncodedData[1]

(***************************************************************************)
(* Properties of the run-length decode.                                    *)
(***************************************************************************)
\* The last loop iteration of the RLE decoder read a run header (b1, b2)
\* other than the end-of-row pair (0, 0).
LastWasRun ==
    /\ rleIn.variant # "none"
    /\ rlePrev.status = "run"
    /\ rlePrev.cursor + 2 <= Len(rleIn.blk.EncodedData)
    /\ <<rleIn.blk.EncodedData[rlePrev.cursor + 1],
         rleIn.blk.EncodedData[rlePrev.cursor + 2]>> # <<0, 0>>

RunB1 == rleIn.blk.EncodedData[rlePrev.cursor + 1]

RunB2 == rleIn.blk.EncodedData[rlePrev.cursor + 2]

\* The canvas row and the columns the run is to be written to.
RunRow == rleIn.blk.Y + rlePrev.y + rleIn.vo

RunColumn(i) == rleIn.blk.X + rlePrev.x + RunB1 + i

\* The run's b2 payload bytes are there, and all its targets lie inside the
\* tile row and the buffer.
RunFits ==
    /\ rlePrev.cursor + 2 + RunB2 <= Len(rleIn.blk.EncodedData)
    /\ \A i \in 0..(RunB2 - 1) :
           /\ RunColumn(i) \in 0..(rleIn.w - 1)
           /\ (RunRow * rleIn.w) + RunColumn(i) \in 0..(Len(rlePrev.pix) - 1)

\* What C11 says of a run that has been decoded.
RunDecodedAsClaimed ==
    /\ rleSt.status # "panic"
    /\ rleSt.cursor = rlePrev.cursor + 2 + RunB2
    /\ rleSt.x = rlePrev.x + RunB1 + RunB2
    /\ rleSt.y = rlePrev.y
    /\ \A j \in 0..(Len(rlePrev.pix) - 1) :
           rleSt.pix[j + 1] =
               IF \E i \in 0..(RunB2 - 1) : j = (RunRow * rleIn.w) + RunColumn(i)
               THEN rleIn.blk.EncodedData[rlePrev.cursor + 3
                                              + (j - (RunRow * rleIn.w) - RunColumn(0))]
               ELSE rlePrev.pix[j + 1]

\* C11 as stated: a run header (b1, b2) other than (0, 0) read at cursor
\* (x, y), whose targets all lie inside the tile row and the buffer,
\* consumes the next b2 payload bytes, writes them at
\* ((blockY + y + yOffset) * tileWidth) + (blockX + x + b1 + i), writes no
\* other pixel and leaves x = x + b1 + b2 and y unchanged.
C11_RunDecode == (LastWasRun /\ RunFits) => RunDecodedAsClaimed

\* The block-relative column of every pixel of the run stays below the
\* tile width, so that the v2 decoder does not wrap to the next row.
RunCursorInRow ==
    \A i \in 0..(RunB2 - 1) : rlePrev.x + RunB1 + i < rleIn.w

\* The payload [3, 2, 0xAA, 0xBB] at block (0, 0) under offset 0, in a
\* buffer that has the pixels 3 and 4.
RunExample ==
    /\ rleIn.variant # "none"
    /\ rleIn.blk.EncodedData = <<3, 2, 170, 187>>
    /\ rleIn.blk.X = 0
    /\ rleIn.blk.Y = 0
    /\ rleIn.vo = 0
    /\ Len(rleIn.blk.PixelData) >= 5
    /\ rleSt.status = "done"

\* C11, amended: a run header (b1, b2) other than (0, 0) read at cursor
\* (x, y) is decoded as stated when all its targets lie inside the tile row
\* and the buffer and, besides, the block-relative columns x + b1 + i stay
\* below the tile width; in particular the payload [3, 2, 0xAA, 0xBB] at
\* block (0, 0) under offset 0 sets pixel 3 to 0xAA, pixel 4 to 0xBB and
\* nothing else.
C11_RunDecodeCursorInRow ==
    /\ (LastWasRun /\ RunFits /\ RunCursorInRow) => RunDecodedAsClaimed
    /\ RunExample =>
           \A j \in 0..(Len(rleSt.pix) - 1) :
               rleSt.pix[j + 1] = IF j = 3 THEN 170 ELSE IF j = 4 THEN 187 ELSE 0

\* The example payload has been decoded in a tile 8 pixels wide: its run
\* fitted and pixels 3 and 4 hold its two bytes.
C11_Witness ==
    /\ RunExample
    /\ rleIn.w = 8
    /\ LastWasRun
    /\ RunFits
    /\ RunCursorInRow
    /\ rleSt.pix[4] = 170
    /\ rleSt.pix[5] = 187
    /\ rleSt.x = 5

\* The payload of the RLE block is k (0, 0) pairs and nothing else, and the
\* block's length is 2k.
ZeroPairsPayload ==
    /\ rleIn.variant # "none"
    /\ Len(rleIn.blk.EncodedData) % 2 = 0
    /\ rleIn.blk.Length = Len(rleIn.blk.EncodedData)
    /\ \A i \in 1..Len(rleIn.blk.EncodedData) : rleIn.blk.EncodedData[i] = 0

ZeroPairsCount == Len(rleIn.blk.EncodedData) \div 2

\* C12: for an RLE block whose payload is k (0, 0) pairs, with length 2k,
\* the decoder writes no pixel (the buffer stays all zero), never fails, and
\* ends with y = k, x = 0 and exactly 2k payload bytes consumed; on the way
\* every pair read advances the row cursor by one and nothing else.
C12_ZeroPairsOnlyAdvanceRows ==
    ZeroPairsPayload =>
        /\ rleSt.status \in {"run", "done"}
        /\ rleSt.pix = Zeros(Len(rleIn.blk.PixelData))
        /\ rleSt.x = 0
        /\ rleSt.cursor = 2 * rleSt.y
        /\ rleSt.status = "done" <=> (rleSt.y = ZeroPairsCount)
        /\ rleSt.status = "done" => rleSt.cursor = rleIn.blk.Length

\* A payload of three (0, 0) pairs has been decoded to its end.
C12_Witness ==
    /\ ZeroPairsPayload
    /\ ZeroPairsCount = 3
    /\ rleSt.status = "done"
    /\ rleSt.y = 3
    /\ rleSt.cursor = 6

\* The decoder that the tag read from a block's header stands for.
DecoderOfTag(formatValue) == IF formatValue = 1 THEN "iso" ELSE "rle"

\* C13 as stated: a block whose header tag is 1 is decoded as Isometric and
\* a block with any other tag is decoded by the run-length decoder; once the
\* graphics pass has handled a block, a decoder has been run on it and it is
\* the decoder of its tag.
C13_AnyOtherTagIsRLE ==
    \A t \in TileIds : \A b \in BlockIds(t) :
        PixelsLoaded(t, b) =>
            tiles[t].Blocks[b].decodedBy = DecoderOfTag(tiles[t].Blocks[b].formatValue)

\* Package pkg alone: the tag is mapped when the header is read, and every
\* block handled by the graphics pass was decoded by the decoder of its tag.
C13_PkgAnyOtherTagIsRLE ==
    variant = "pkg" => C13_AnyOtherTagIsRLE

\* The bytes of the input that a block's header points at: block.Length
\* bytes from the absolute offset blockHeaderPointer + FileOffset.
BodyInFile(t, b) ==
    LET at == tiles[t].blockHeaderPointer + tiles[t].Blocks[b].FileOffset
    IN  SubSeq(fileData, at + 1, at + tiles[t].Blocks[b].Length)

\* The bytes at a block's body offset run past the end of the input.
BodyCutShort(t, b) ==
    LET at == tiles[t].blockHeaderPointer + tiles[t].Blocks[b].FileOffset
    IN  at < 0 \/ tiles[t].Blocks[b].Length < 0
           \/ at + tiles[t].Blocks[b].Length > Len(fileData)

\* C14: a block whose body has been loaded holds exactly the block.Length
\* bytes of the input at blockHeaderPointer + FileOffset, the bodies of a
\* tile are loaded in header order, and when fewer than block.Length bytes
\* remain at that offset the body pass fails with an error and stores
\* nothing for the block.
C14_BodyIsExactlyLengthBytes ==
    /\ \A t \in TileIds : \A b \in BlockIds(t) :
           BodyLoaded(t, b) =>
               /\ ~BodyCutShort(t, b)
               /\ Len(tiles[t].Blocks[b].EncodedData) = tiles[t].Blocks[b].Length
               /\ tiles[t].Blocks[b].EncodedData = BodyInFile(t, b)
               /\ \A c \in 1..(b - 1) : BodyLoaded(t, c)
    /\ \A t \in TileIds : \A b \in BlockIds(t) :
           (HeaderLoaded(t, b) /\ BodyCutShort(t, b)) =>
               /\ ~BodyLoaded(t, b)
               /\ tiles[t].Blocks[b].EncodedData = <<>>
               /\ result # "container"
    /\ failedStage = "blockBodies" =>
           /\ err # "nil"
           /\ result = "nil"
           /\ BodyCutShort(tileIdx, blockIdx)

\* The body pass of a tile has loaded the four bytes of its first block and
\* has failed on its second block, whose body the input cuts short.
C14_Witness ==
    /\ failedStage = "blockBodies"
    /\ BodyCutShort(tileIdx, blockIdx)
    /\ blockIdx = 2
    /\ BodyLoaded(tileIdx, 1)
    /\ Len(tiles[tileIdx].Blocks[1].EncodedData) = 4
    /\ tiles[tileIdx].Blocks[1].EncodedData = BodyInFile(tileIdx, 1)

\* C15 as stated: every stage returns at the first failing read; once a
\* read has failed no further read is made, the call has returned, and it
\* has returned nil with the error.
C15_ReturnAtFirstFailingRead ==
    firstFail # 0 =>
        /\ nReads = firstFail
        /\ pc = "returned"
        /\ result = "nil"
        /\ err # "nil"

\* What the stages do keep: the stage in which a read fails ends with an
\* error, and the call returns nil.
C15_FailedReadFailsTheCall ==
    firstFail # 0 =>
        /\ pc = "returned"
        /\ result = "nil"
        /\ err # "nil"

\* C16 as stated: a Palette() call on a container to which no palette was
\* supplied yields 256 entries, entry i being (i, i, i) with alpha 255, and
\* a call after SetPalette yields the palette supplied last.
C16_PaletteDefaultsToGrey ==
    paletteOut.called =>
        IF paletteOut.supplied.nil
        THEN /\ ~paletteOut.value.nil
             /\ Len(paletteOut.value.entries) = 256
             /\ \A i \in 0..255 :
                    paletteOut.value.entries[i + 1] =
                        [R |-> i, G |-> i, B |-> i, A |-> 255]
        ELSE paletteOut.value = paletteOut.supplied

\* Package pkg alone: Palette() yields the grey ramp.
C16_PkgPaletteDefaultsToGrey ==
    palette.variant = "pkg" => C16_PaletteDefaultsToGrey

\* v2 after SetPalette: Palette() and every tile and block hold the palette
\* supplied last.
C16_SuppliedPaletteReturned ==
    (palette.variant = "v2" /\ ~palette.supplied.nil) =>
        /\ palette.field = palette.supplied
        /\ (paletteOut.called /\ ~paletteOut.supplied.nil) =>
               paletteOut.value = paletteOut.supplied
        /\ \A t \in 1..Len(palette.tiles) :
               /\ palette.tiles[t].palette = palette.supplied
               /\ \A b \in 1..Len(palette.tiles[t].blocks) :
                      palette.tiles[t].blocks[b] = palette.supplied

\* The tiles of a container without what the graphics pass adds to them.
WithoutPixels(ts) ==
    [t \in DOMAIN ts |->
        IF ~ts[t].set THEN ts[t]
        ELSE [ts[t] EXCEPT !.Blocks =
                 [b \in DOMAIN ts[t].Blocks |->
                     IF ~ts[t].Blocks[b].set THEN ts[t].Blocks[b]
                     ELSE [ts[t].Blocks[b] EXCEPT !.PixelData = <<>>,
                                                  !.pixLoaded = FALSE,
                                                  !.decodedBy = "none"]]]]

C18_V2WritesInRange ==
    /\ isoIn.variant = "v2" => isoSt.fault # "write"
    /\ rleIn.variant = "v2" => rleSt.fault # "write"

\* What the v2 checks do keep: no pixel is written at or past the end of the
\* buffer, and a decode that faults has computed a negative offset.
C18_V2FaultsBelowZeroOnly ==
    /\ (isoIn.variant = "v2" /\ isoSt.fault = "write") =>
           PixelOffset(isoIn.blk, isoSt.x, isoSt.y, isoIn.w, isoIn.vo) < 0
    /\ (rleIn.variant = "v2" /\ rleSt.fault = "write") =>
           PixelOffset(rleIn.blk, rleSt.x, rleSt.y, rleIn.w, rleIn.vo) < 0

\* No v2 decoder has read past the end of its payload.
V2ReadsInRange ==
    /\ isoIn.variant = "v2" =>
           /\ isoSt.fault # "read"
           /\ isoSt.cursor <= Len(isoIn.blk.EncodedData)
    /\ rleIn.variant = "v2" =>
           /\ rleSt.fault # "read"
           /\ rleSt.cursor <= Len(rleIn.blk.EncodedData)

\* How many more iterations a decoder's loop can make at most: none once
\* it has ended, and otherwise no more than the length it has left, which
\* the loop tests to be positive.
LoopMeasure(st) ==
    IF st.status # "run" THEN 0 ELSE IF st.remaining > 0 THEN st.remaining + 1 ELSE 1

\* An iteration of a v2 decoder's loop lowers the measure of that loop.
V2LoopProgress ==
    /\ isoIn.variant = "v2" => LoopMeasure(isoSt') < LoopMeasure(isoSt)
    /\ rleIn.variant = "v2" => LoopMeasure(rleSt') < LoopMeasure(rleSt)

\* C19: in the v2 decoders no read of encodedData is past its end, and
\* both loops terminate whatever the payload: every iteration lowers a
\* natural number, which is 0 only when the loop has ended.
C19_V2ReadsInRangeAndLoopsEnd == []V2ReadsInRange /\ [][V2LoopProgress]_vars

\* The v2 RLE decoder has ended on a final run whose length overshoots the
\* payload: the header was read, no byte after it.
C19_Witness ==
    /\ rleIn.variant = "v2"
    /\ rleIn.blk.EncodedData = <<1, 5, 9, 9>>
    /\ rleSt.status = "done"
    /\ rleSt.cursor = 2
    /\ rleSt.pix = rleIn.blk.PixelData

====
